---- MODULE Spec2Model ----
(***************************************************************************)
(* Model of backend/server.js: the eBay token cache (getEbayToken) and the *)
(* two proxy handlers (GET /api/ebay/search, GET /api/ebay/item/:itemId),  *)
(* together with the app.listen callback that calls getEbayToken once.     *)
(*                                                                         *)
(* Node runs every callback to completion, so one action is one run of the *)
(* event loop: from the arrival of a request (or the completion of an      *)
(* awaited axios call) up to the next awaited axios call or the response.  *)
(***************************************************************************)
EXTENDS Integers, FiniteSets, Sequences, TLC

VARIABLES
    now,              \* Date.now(), in milliseconds
    ebayToken,        \* let ebayToken (line 44)
    tokenExpiryTime,  \* let tokenExpiryTime (line 45)
    EBAY_CLIENT_ID,   \* const, selected once at load (lines 24-26)
    EBAY_CLIENT_SECRET, \* const, selected once at load (lines 27-29)
    req,              \* per invocation: position and locals of the async function
    acq,              \* history: the identity response that last wrote the cache
    sent,             \* the response a handler has just produced, until it is flushed
    failed,           \* history: an acquisition has failed since the last getEbayToken call
    unhandled,        \* a promise was rejected with no handler attached
    query,            \* req.query of a search request (line 97)
    searchParams      \* the params object the search handler builds from it (lines 100-111)

vars == <<now, ebayToken, tokenExpiryTime, EBAY_CLIENT_ID, EBAY_CLIENT_SECRET,
          req, acq, sent, failed, unhandled, query, searchParams>>

----------------------------------------------------------------------------
(* Bounds of the model *)

MaxReq == 2          \* inbound requests over the whole run
MaxTicks == 2        \* clock advances over the whole run
TickMs == 50000      \* one clock advance, in milliseconds
StartTime == 1000000 \* Date.now() when the process starts

Startup == 0                 \* the app.listen callback
Requests == 1..MaxReq        \* inbound requests, numbered in order of arrival
Procs == {Startup} \cup Requests

----------------------------------------------------------------------------
(* JavaScript values *)

Null == "null"
Undefined == "undefined"
NaN == -1            \* all other numbers of the model are >= 0

\* Boolean coercion of a string-or-null value: null, undefined and '' are falsy.
Truthy(v) == v \notin {Null, Undefined, ""}

JsAdd(a, b) == IF a = NaN \/ b = NaN THEN NaN ELSE a + b
JsMul(a, b) == IF a = NaN \/ b = NaN THEN NaN ELSE a * b
\* a > b is false whenever either side is NaN
JsGt(a, b) == a # NaN /\ b # NaN /\ a > b

----------------------------------------------------------------------------
(* Inputs *)

\* response.data of a 2xx identity response: access_token (Undefined = field
\* missing) and expires_in in seconds (NaN = field missing: undefined * 1000 is NaN)
IdentityResponse(accessToken, expiresIn) ==
    [access_token |-> accessToken, expires_in |-> expiresIn]

IdentityResponses ==
    { IdentityResponse("tokA", 400), IdentityResponse("tokB", 400),
      IdentityResponse("tokA", 200), IdentityResponse(Undefined, 400),
      IdentityResponse("tokB", NaN) }

\* process.env values for the credentials of the active environment
CredentialValues == {"", "id"}
ItemIds == {"", "123"}

\* an error thrown by axios: non-2xx (response present) or transport failure
AxiosError(hasResponse, status, data, message) ==
    [hasResponse |-> hasResponse, status |-> status, data |-> data, message |-> message]

\* failures of the identity call (axios.post, line 69)
IdentityErrors ==
    { AxiosError(TRUE, 401, "invalid_client", "Request failed with status code 401"),
      AxiosError(FALSE, 0, "", "connect ECONNREFUSED") }

\* failures of the marketplace call (axios.get, lines 120 and 156)
ApiErrors ==
    { AxiosError(TRUE, 401, "Invalid access token", "Request failed with status code 401"),
      AxiosError(TRUE, 404, "", "Request failed with status code 404"),
      AxiosError(FALSE, 0, "", "connect ECONNREFUSED") }

\* ebayResponse.data of a 2xx marketplace response
UpstreamBodies == {"upstreamJson", "{}"}

----------------------------------------------------------------------------
(* getEbayToken, lines 48-92 *)

tokenBufferSeconds == 300

\* Variants of the freshness test of line 50, each a slip the test could contain:
\* the buffer converted to milliseconds twice, the buffer left out, the expiry
\* not looked at.
CacheHit_BufferConvertedTwice(tok, exp, t) ==
    Truthy(tok) /\ JsGt(exp, JsAdd(t, tokenBufferSeconds * 1000 * 1000))

CacheHit_NoBuffer(tok, exp, t) == Truthy(tok) /\ JsGt(exp, t)

CacheHit_ExpiryIgnored(tok, exp, t) == Truthy(tok)

\* line 50: ebayToken && tokenExpiryTime > now + tokenBufferSeconds * 1000
CacheHit(tok, exp, t) ==
    Truthy(tok) /\ JsGt(exp, JsAdd(t, tokenBufferSeconds * 1000))

\* Variant of line 58 with && for ||
CredentialsMissing_BothNeeded(id, secret) == ~Truthy(id) /\ ~Truthy(secret)

\* line 58: !EBAY_CLIENT_ID || !EBAY_CLIENT_SECRET
CredentialsMissing(id, secret) == ~Truthy(id) \/ ~Truthy(secret)

\* line 63: throw new Error("Credenziali eBay non configurate ...")
ConfigError ==
    AxiosError(FALSE, 0, "", "Credenziali eBay non configurate sul server per l'ambiente corrente.")

\* Variant of lines 87-88 that resets the expiry only
OnFailure_TokenKept(tok, exp) == <<tok, 0>>

\* lines 87-88: ebayToken = null; tokenExpiryTime = 0 (the pair <<token, expiry>>)
OnFailure(tok, exp) == <<Null, 0>>

\* Variant of line 81 that counts the lifetime from the clock at completion
NewExpiry_FromCompletion(t0, expiresIn) == JsAdd(now, JsMul(expiresIn, 1000))

\* line 81: now + (response.data.expires_in * 1000)
NewExpiry(t0, expiresIn) == JsAdd(t0, JsMul(expiresIn, 1000))

\* line 90: throw new Error(`Impossibile ottenere ... Dettagli: ${error.message}`)
TokenError(error) ==
    AxiosError(FALSE, 0, "", "Impossibile ottenere il token di accesso eBay. Dettagli: " \o error.message)

----------------------------------------------------------------------------
(* The handlers' catch blocks, lines 130-137 and 165-172 *)

\* Variant of lines 133 and 168 that always answers 500
ErrorStatus_Always500(error) == 500

\* error.response?.status || 500
ErrorStatus(error) ==
    IF error.hasResponse /\ error.status # 0 THEN error.status ELSE 500

\* error.response?.data || error.message
ErrorDetails(error) ==
    IF error.hasResponse /\ Truthy(error.data) THEN error.data ELSE error.message

NoResponse == [status |-> 0, shape |-> "none", body |-> ""]

\* Variant of lines 128 and 163 that answers 200 without the upstream body
JsonResponse_BodyDropped(data) == [status |-> 200, shape |-> "json", body |-> ""]

\* res.json(ebayResponse.data), lines 128 and 163
JsonResponse(data) == [status |-> 200, shape |-> "json", body |-> data]

\* the 2xx response axios.get resolved with, as the cause of a relayed answer
OkResponse(data) == AxiosError(TRUE, 200, data, "")

\* res.status(...).json({message, details}), lines 133-136 and 168-171
ErrorResponse(error) ==
    [status |-> ErrorStatus(error), shape |-> "message_details", body |-> ErrorDetails(error)]

\* Variant of line 145 that tests for undefined only
MissingItemId_UndefinedOnly(itemId) == itemId = Undefined

\* line 145: !itemId
MissingItemId(itemId) == ~Truthy(itemId)

\* res.status(400).json({error}), line 146
MissingIdResponse == [status |-> 400, shape |-> "error", body |-> "eBay Item ID mancante nell'URL."]

----------------------------------------------------------------------------
(* The search handler's parameters, lines 95-111. Strings are sequences of
   one-character strings, so that trim and parseInt work on their characters. *)

CLOTHING_CATEGORY_ID == <<"1", "1", "4", "5", "0">>

Digits == <<"0", "1", "2", "3", "4", "5", "6", "7", "8", "9">>
IsDigit(c) == \E i \in 1..10 : Digits[i] = c
DigitValue(c) == (CHOOSE i \in 1..10 : Digits[i] = c) - 1

\* a query-string parameter: given with a text, or not given (undefined)
Given(text) == [given |-> TRUE, text |-> text]
NotGiven == [given |-> FALSE, text |-> <<>>]

RECURSIVE TrimStart(_)
TrimStart(s) == IF s # <<>> /\ Head(s) = " " THEN TrimStart(Tail(s)) ELSE s

RECURSIVE TrimEnd(_)
TrimEnd(s) ==
    IF s # <<>> /\ s[Len(s)] = " " THEN TrimEnd(SubSeq(s, 1, Len(s) - 1)) ELSE s

\* String.prototype.trim
Trim(s) == TrimEnd(TrimStart(s))

\* the value of the longest prefix of s made of digits, continuing from acc;
\* NaN if acc is NaN and s does not start with a digit
RECURSIVE ParseDigits(_, _)
ParseDigits(s, acc) ==
    IF s # <<>> /\ IsDigit(Head(s))
    THEN ParseDigits(Tail(s), (IF acc = NaN THEN 0 ELSE acc * 10) + DigitValue(Head(s)))
    ELSE acc

\* parseInt(string): leading white space skipped, then the digits that follow
ParseInt(s) == ParseDigits(TrimStart(s), NaN)

\* line 97: the destructuring defaults apply to parameters that are not given;
\* parseInt(20) is 20 and parseInt(0) is 0
LimitOf(q) == IF q.limit.given THEN ParseInt(q.limit.text) ELSE 20
OffsetOf(q) == IF q.offset.given THEN ParseInt(q.offset.text) ELSE 0
CategoryOf(q) == IF q.category.given THEN q.category.text ELSE CLOTHING_CATEGORY_ID
QueryTextOf(q) == IF q.q.given THEN q.q.text ELSE <<>>

\* Variant of line 106 that tests the raw text
HasSearchText_Untrimmed(text) == text # <<>>

\* line 106: q && q.trim() !== ''
HasSearchText(text) == text # <<>> /\ Trim(text) # <<>>

\* lines 100-111
BuildSearchParams(q) ==
    IF HasSearchText(QueryTextOf(q))
    THEN [limit |-> LimitOf(q), offset |-> OffsetOf(q), q |-> Trim(QueryTextOf(q)),
          category_ids |-> CategoryOf(q)]
    ELSE [limit |-> LimitOf(q), offset |-> OffsetOf(q), category_ids |-> CategoryOf(q)]

QueryTexts ==
    { NotGiven, Given(<<>>), Given(<<" ", " ">>), Given(<<"j", "k">>),
      Given(<<" ", "j", " ", "k", " ">>) }
NumberTexts ==
    { NotGiven, Given(<<>>), Given(<<"7">>), Given(<<" ", "1", "2", "x">>), Given(<<"x">>) }
CategoryTexts == { NotGiven, Given(<<>>), Given(<<"9", "9">>) }

\* the query strings of the inbound search requests considered
Queries ==
    [q : QueryTexts, limit : NumberTexts, offset : NumberTexts, category : CategoryTexts]

NoQuery == [q |-> NotGiven, limit |-> NotGiven, offset |-> NotGiven, category |-> NotGiven]
NoParams == [built |-> FALSE]

----------------------------------------------------------------------------
(* State of one invocation *)

\* `now` is getEbayToken's local (line 49), `token` the handler's (lines 114, 150);
\* via, idCalls and mpCalls record the path taken and the outbound calls issued.
IdleReq(kind) ==
    [pc |-> "idle", kind |-> kind, itemId |-> "-", now |-> 0, via |-> "none",
     token |-> Null, idCalls |-> 0, mpCalls |-> 0]

\* the request has been answered (or the listen callback has finished)
Closed(r) == [IdleReq("-") EXCEPT !.pc = "done"]

\* what made the handler answer as it did: the failure of an outbound call (with
\* the error axios threw), the missing credentials, or the missing item id
Cause(origin, error) == [origin |-> origin, error |-> error]
NoError == AxiosError(FALSE, 0, "", "")

\* the response sent by handler invocation r
Sent(r, cause, res) ==
    [kind |-> r.kind, itemId |-> r.itemId, via |-> r.via,
     idCalls |-> r.idCalls, mpCalls |-> r.mpCalls, cause |-> cause, res |-> res]

Nothing == Sent(IdleReq("startup"), Cause("none", NoError), NoResponse)

NoAcq == [set |-> FALSE, token |-> Null, now |-> 0, expiresIn |-> 0]

Init ==
    /\ now = StartTime
    /\ ebayToken = Null
    /\ tokenExpiryTime = 0
    /\ EBAY_CLIENT_ID \in CredentialValues
    /\ EBAY_CLIENT_SECRET \in CredentialValues
    /\ req = [p \in Procs |-> IdleReq(IF p = Startup THEN "startup" ELSE "search")]
    /\ acq = NoAcq
    /\ sent = Nothing
    /\ failed = FALSE
    /\ unhandled = FALSE
    /\ query = NoQuery
    /\ searchParams = NoParams

\* Variant of the handlers' continuation that builds the Authorization header from
\* the cache as it was when the callback started, not from the value returned
AfterToken_HeaderFromCache(p, r, tok) ==
    /\ req' = [req EXCEPT ![p] =
                 IF p = Startup THEN Closed(r)
                 ELSE [r EXCEPT !.pc = "awaitApi", !.now = 0, !.token = ebayToken,
                                !.mpCalls = r.mpCalls + 1]]
    /\ sent' = Nothing
    /\ UNCHANGED unhandled

\* The caller's continuation once getEbayToken has returned `tok` (lines 114-126,
\* 150-161): the handlers issue the marketplace call with `Bearer tok`; the
\* listen callback drops the value.
AfterToken(p, r, tok) ==
    /\ req' = [req EXCEPT ![p] =
                 IF p = Startup THEN Closed(r)
                 ELSE [r EXCEPT !.pc = "awaitApi", !.now = 0, !.token = tok,
                                !.mpCalls = r.mpCalls + 1]]
    /\ sent' = Nothing
    /\ UNCHANGED unhandled

\* The caller's continuation once getEbayToken has thrown `error`: the handlers'
\* catch blocks answer (lines 130-137, 165-172); the listen callback has attached
\* no handler to the promise (line 180).
AfterThrow(p, r, cause, error) ==
    /\ req' = [req EXCEPT ![p] = Closed(r)]
    /\ sent' = IF p = Startup THEN Nothing ELSE Sent(r, cause, ErrorResponse(error))
    /\ unhandled' = (unhandled \/ p = Startup)

\* Variant of getEbayToken that shares a refresh already in flight: a caller that
\* finds another invocation awaiting the identity endpoint issues no call of its own
CallGetEbayToken_SharedRefresh(p, r) ==
    /\ failed' = FALSE
    /\ IF CacheHit(ebayToken, tokenExpiryTime, now)
       THEN AfterToken(p, [r EXCEPT !.via = "cache"], ebayToken)
       ELSE IF CredentialsMissing(EBAY_CLIENT_ID, EBAY_CLIENT_SECRET)
       THEN AfterThrow(p, [r EXCEPT !.via = "nocreds"], Cause("config", ConfigError), ConfigError)
       ELSE /\ req' = [req EXCEPT ![p] =
                         [r EXCEPT !.pc = "awaitToken", !.now = now, !.via = "identity",
                                   !.idCalls = IF \E o \in Procs : req[o].pc = "awaitToken"
                                               THEN r.idCalls ELSE r.idCalls + 1]]
            /\ sent' = Nothing
            /\ UNCHANGED unhandled

\* getEbayToken up to its first await (lines 49-78), run by caller p
CallGetEbayToken(p, r) ==
    /\ failed' = FALSE
    /\ IF CacheHit(ebayToken, tokenExpiryTime, now)
       THEN AfterToken(p, [r EXCEPT !.via = "cache"], ebayToken)
       ELSE IF CredentialsMissing(EBAY_CLIENT_ID, EBAY_CLIENT_SECRET)
       THEN AfterThrow(p, [r EXCEPT !.via = "nocreds"], Cause("config", ConfigError), ConfigError)
       ELSE /\ req' = [req EXCEPT ![p] = [r EXCEPT !.pc = "awaitToken", !.now = now,
                                                   !.via = "identity", !.idCalls = r.idCalls + 1]]
            /\ sent' = Nothing
            /\ UNCHANGED unhandled

\* app.listen callback, lines 177-181
Listen ==
    /\ sent = Nothing
    /\ req[Startup].pc = "idle"
    /\ CallGetEbayToken(Startup, req[Startup])
    /\ UNCHANGED <<now, ebayToken, tokenExpiryTime, EBAY_CLIENT_ID, EBAY_CLIENT_SECRET, acq,
                   query, searchParams>>

\* GET /api/ebay/search, lines 95-118
Search(p) ==
    /\ p \in Requests
    /\ sent = Nothing
    /\ req[p - 1].pc # "idle"
    /\ req[p].pc = "idle"
    /\ CallGetEbayToken(p, IdleReq("search"))
    /\ UNCHANGED <<now, ebayToken, tokenExpiryTime, EBAY_CLIENT_ID, EBAY_CLIENT_SECRET, acq,
                   query, searchParams>>

\* GET /api/ebay/item/:itemId, lines 141-154
Item(p, itemId) ==
    /\ p \in Requests
    /\ sent = Nothing
    /\ req[p - 1].pc # "idle"
    /\ req[p].pc = "idle"
    /\ LET r == [IdleReq("item") EXCEPT !.itemId = itemId]
       IN  IF MissingItemId(itemId)
           THEN /\ req' = [req EXCEPT ![p] = Closed(r)]
                /\ sent' = Sent(r, Cause("validation", NoError), MissingIdResponse)
                /\ UNCHANGED <<failed, unhandled>>
           ELSE CallGetEbayToken(p, r)
    /\ UNCHANGED <<now, ebayToken, tokenExpiryTime, EBAY_CLIENT_ID, EBAY_CLIENT_SECRET, acq,
                   query, searchParams>>

\* Variant of lines 80-83 that keeps a token already in the cache: the first
\* completion wins
TokenOk_KeepsExisting(p, data) ==
    /\ sent = Nothing
    /\ req[p].pc = "awaitToken"
    /\ ebayToken' = IF Truthy(ebayToken) THEN ebayToken ELSE data.access_token
    /\ tokenExpiryTime' = IF Truthy(ebayToken) THEN tokenExpiryTime
                          ELSE NewExpiry(req[p].now, data.expires_in)
    /\ acq' = [set |-> TRUE, token |-> data.access_token, now |-> req[p].now,
               expiresIn |-> data.expires_in]
    /\ AfterToken(p, req[p], ebayToken')
    /\ UNCHANGED <<now, EBAY_CLIENT_ID, EBAY_CLIENT_SECRET, failed, query, searchParams>>

\* axios.post resolves: lines 80-83, then the caller's continuation
TokenOk(p, data) ==
    /\ sent = Nothing
    /\ req[p].pc = "awaitToken"
    /\ ebayToken' = data.access_token
    /\ tokenExpiryTime' = NewExpiry(req[p].now, data.expires_in)
    /\ acq' = [set |-> TRUE, token |-> data.access_token, now |-> req[p].now,
               expiresIn |-> data.expires_in]
    /\ AfterToken(p, req[p], ebayToken')
    /\ UNCHANGED <<now, EBAY_CLIENT_ID, EBAY_CLIENT_SECRET, failed, query, searchParams>>

\* axios.post rejects: lines 85-91, then the caller's continuation
TokenFail(p, error) ==
    /\ sent = Nothing
    /\ req[p].pc = "awaitToken"
    /\ ebayToken' = OnFailure(ebayToken, tokenExpiryTime)[1]
    /\ tokenExpiryTime' = OnFailure(ebayToken, tokenExpiryTime)[2]
    /\ acq' = NoAcq
    /\ failed' = TRUE
    /\ AfterThrow(p, req[p], Cause("identity", error), TokenError(error))
    /\ UNCHANGED <<now, EBAY_CLIENT_ID, EBAY_CLIENT_SECRET, query, searchParams>>

\* axios.get resolves: res.json(ebayResponse.data), lines 128 and 163
ApiOk(p, data) ==
    /\ sent = Nothing
    /\ req[p].pc = "awaitApi"
    /\ req' = [req EXCEPT ![p] = Closed(req[p])]
    /\ sent' = Sent(req[p], Cause("none", OkResponse(data)), JsonResponse(data))
    /\ UNCHANGED <<now, ebayToken, tokenExpiryTime, EBAY_CLIENT_ID, EBAY_CLIENT_SECRET,
                   acq, failed, unhandled, query, searchParams>>

\* Variant of the catch block that re-authenticates once when the marketplace
\* answers 401, instead of answering the caller
ApiFail_Reauthenticates(p, error) ==
    /\ sent = Nothing
    /\ req[p].pc = "awaitApi"
    /\ IF error.status = 401 /\ req[p].idCalls + req[p].mpCalls <= 2
       THEN /\ req' = [req EXCEPT ![p] = [req[p] EXCEPT !.pc = "awaitToken", !.now = now,
                                                        !.via = "identity", !.token = Null,
                                                        !.idCalls = req[p].idCalls + 1]]
            /\ sent' = Nothing
       ELSE /\ req' = [req EXCEPT ![p] = Closed(req[p])]
            /\ sent' = Sent(req[p], Cause("api", error), ErrorResponse(error))
    /\ UNCHANGED <<now, ebayToken, tokenExpiryTime, EBAY_CLIENT_ID, EBAY_CLIENT_SECRET,
                   acq, failed, unhandled, query, searchParams>>

\* Variant of the catch block that drops the cached token when the marketplace
\* answers 401
ApiFail_ClearsOn401(p, error) ==
    /\ sent = Nothing
    /\ req[p].pc = "awaitApi"
    /\ req' = [req EXCEPT ![p] = Closed(req[p])]
    /\ sent' = Sent(req[p], Cause("api", error), ErrorResponse(error))
    /\ ebayToken' = IF error.status = 401 THEN Null ELSE ebayToken
    /\ tokenExpiryTime' = IF error.status = 401 THEN 0 ELSE tokenExpiryTime
    /\ UNCHANGED <<now, EBAY_CLIENT_ID, EBAY_CLIENT_SECRET,
                   acq, failed, unhandled, query, searchParams>>

\* axios.get rejects: the catch block, lines 130-137 and 165-172
ApiFail(p, error) ==
    /\ sent = Nothing
    /\ req[p].pc = "awaitApi"
    /\ req' = [req EXCEPT ![p] = Closed(req[p])]
    /\ sent' = Sent(req[p], Cause("api", error), ErrorResponse(error))
    /\ UNCHANGED <<now, ebayToken, tokenExpiryTime, EBAY_CLIENT_ID, EBAY_CLIENT_SECRET,
                   acq, failed, unhandled, query, searchParams>>

\* Time passes between callbacks. Date.now() is read only on entry to getEbayToken
\* (line 49), so the clock is advanced only while an invocation is still to come.
Tick ==
    /\ sent = Nothing
    /\ now < StartTime + MaxTicks * TickMs
    /\ \E p \in Procs : req[p].pc = "idle"
    /\ now' = now + TickMs
    /\ UNCHANGED <<ebayToken, tokenExpiryTime, EBAY_CLIENT_ID, EBAY_CLIENT_SECRET,
                   req, acq, sent, failed, unhandled, query, searchParams>>

\* Express writes the response to the socket: it leaves the process. A response is
\* flushed before the event loop runs the next callback.
Flush ==
    /\ sent # Nothing
    /\ sent' = Nothing
    /\ UNCHANGED <<now, ebayToken, tokenExpiryTime, EBAY_CLIENT_ID, EBAY_CLIENT_SECRET,
                   req, acq, failed, unhandled, query, searchParams>>

Next ==
    \/ Listen
    \/ \E p \in Requests : Search(p)
    \/ \E p \in Requests, itemId \in ItemIds : Item(p, itemId)
    \/ \E p \in Procs, data \in IdentityResponses : TokenOk(p, data)
    \/ \E p \in Procs, error \in IdentityErrors : TokenFail(p, error)
    \/ \E p \in Requests, data \in UpstreamBodies : ApiOk(p, data)
    \/ \E p \in Requests, error \in ApiErrors : ApiFail(p, error)
    \/ Tick
    \/ Flush

Spec == Init /\ [][Next]_vars

----------------------------------------------------------------------------
(* The same program under the assumption that every outbound call eventually
   returns or fails: axios settles the promise of each pending identity call and
   of each pending marketplace call, the event loop then runs the continuation,
   and Express flushes each response. *)

IdentityCallSettles(p) ==
    \/ \E data \in IdentityResponses : TokenOk(p, data)
    \/ \E error \in IdentityErrors : TokenFail(p, error)

MarketplaceCallSettles(p) ==
    \/ \E data \in UpstreamBodies : ApiOk(p, data)
    \/ \E error \in ApiErrors : ApiFail(p, error)

FairSpec ==
    /\ Init
    /\ [][Next]_vars
    /\ \A p \in Procs : WF_vars(IdentityCallSettles(p))
    /\ \A p \in Requests : WF_vars(MarketplaceCallSettles(p))
    /\ WF_vars(Flush)

----------------------------------------------------------------------------
(* The search handler's parameter construction on its own: every query string
   of Queries is put through lines 97-111. *)

InitParams ==
    /\ now = StartTime
    /\ ebayToken = Null
    /\ tokenExpiryTime = 0
    /\ EBAY_CLIENT_ID = "id"
    /\ EBAY_CLIENT_SECRET = "id"
    /\ req = [p \in Procs |-> IdleReq(IF p = Startup THEN "startup" ELSE "search")]
    /\ acq = NoAcq
    /\ sent = Nothing
    /\ failed = FALSE
    /\ unhandled = FALSE
    /\ query \in Queries
    /\ searchParams = NoParams

\* lines 97-111 of the search handler
BuildParams ==
    /\ searchParams = NoParams
    /\ searchParams' = BuildSearchParams(query)
    /\ UNCHANGED <<now, ebayToken, tokenExpiryTime, EBAY_CLIENT_ID, EBAY_CLIENT_SECRET,
                   req, acq, sent, failed, unhandled, query>>

NextParams == BuildParams

SpecParams == InitParams /\ [][NextParams]_vars

TypeOK ==
    /\ now \in Nat
    /\ unhandled \in BOOLEAN
    /\ failed \in BOOLEAN
    /\ \A p \in Procs : req[p].pc \in {"idle", "awaitToken", "awaitApi", "done"}
    /\ query \in Queries
    /\ searchParams \in {NoParams} \cup {BuildSearchParams(q) : q \in Queries}

----------------------------------------------------------------------------
(* Steps and conditions the properties speak of *)

BufferWindow == tokenBufferSeconds * 1000

\* in this step, caller p enters getEbayToken (every caller does so at most once)
CallsGetToken(p) ==
    /\ req[p].pc = "idle"
    /\ req'[p].pc # "idle"
    /\ sent'.cause.origin # "validation"

\* in this step, getEbayToken returns a token to the handler of request p
ReturnsToken(p) ==
    /\ req[p].pc \in {"idle", "awaitToken"}
    /\ req'[p].pc = "awaitApi"

\* in this step, the identity call of caller p fails
AcquisitionFails(p) ==
    /\ req[p].pc = "awaitToken"
    /\ req'[p].pc = "done"
    /\ IF p = Startup THEN unhandled' ELSE sent'.cause.origin = "identity"

\* no identity call is issued in this step
NoIdentityCall == \A q \in Procs : req'[q].pc = "awaitToken" => req[q].pc = "awaitToken"

CacheUnchanged == ebayToken' = ebayToken /\ tokenExpiryTime' = tokenExpiryTime

\* the cache holds a token acquired at time acq.now with a lifetime of acq.expiresIn s
HoldsAcquired ==
    /\ acq.set
    /\ acq.expiresIn # NaN
    /\ ebayToken = acq.token
    /\ ebayToken \notin {Null, Undefined, ""}

\* t0 + L*1000 - bufferWindow
WindowEnd == acq.now + acq.expiresIn * 1000 - BufferWindow

CacheEmpty == ebayToken = Null /\ tokenExpiryTime = 0

\* the call of p is answered from the cache: same token, nothing written, no call
ServedFromCache(p) ==
    /\ CacheUnchanged
    /\ NoIdentityCall
    /\ p \in Requests => /\ req'[p].pc = "awaitApi"
                         /\ req'[p].token = ebayToken
                         /\ req'[p].idCalls = 0

----------------------------------------------------------------------------
(* C1: P1 (cache freshness) as stated: a getEbayToken call made at any time t
   with t0 <= t <= t0 + L*1000 - bufferWindow, while the cache holds the token
   acquired at t0 with lifetime L, returns that token and issues no identity
   call. Refuted at t = t0 + L*1000 - bufferWindow. *)
C1_FreshUpToWindowEnd ==
    [][\A p \in Procs :
          (CallsGetToken(p) /\ HoldsAcquired /\ acq.now <= now /\ now <= WindowEnd)
              => ServedFromCache(p)]_vars

(* C1 amended: the same with the upper bound excluded, t0 <= t < t0 + L*1000 -
   bufferWindow, for a cache that still holds the token of that acquisition. *)
C1_FreshBeforeWindowEnd ==
    [][\A p \in Procs :
          (CallsGetToken(p) /\ HoldsAcquired /\ acq.now <= now /\ now < WindowEnd)
              => ServedFromCache(p)]_vars

\* a request was just served, strictly inside the window, the token acquired earlier
C1_Witness ==
    \E p \in Requests :
        /\ req[p].pc = "awaitApi" /\ req[p].via = "cache" /\ req[p].idCalls = 0
        /\ HoldsAcquired /\ req[p].token = acq.token
        /\ acq.now < now /\ now < WindowEnd

(* C2: every token getEbayToken returns to a handler, cached or freshly acquired
   with any lifetime, has an expiry at least bufferWindow ms after the moment it
   is returned. Refuted by an acquisition with expires_in below the buffer. *)
C2_EveryTokenValidForBuffer ==
    [][\A p \in Requests :
          ReturnsToken(p)
              => tokenExpiryTime' # NaN /\ tokenExpiryTime' >= now' + BufferWindow]_vars

(* C2 amended: every token getEbayToken returns from the cache is the cached one
   and its recorded expiry is more than bufferWindow ms after the moment it is
   returned. *)
C2_CachedTokenValidForBuffer ==
    [][\A p \in Requests :
          (ReturnsToken(p) /\ req'[p].via = "cache")
              => /\ req'[p].token = ebayToken'
                 /\ tokenExpiryTime' # NaN
                 /\ tokenExpiryTime' > now' + BufferWindow]_vars

\* a handler holds a token it got from the cache, the cache entry still good for the buffer
C2_Witness ==
    \E p \in Requests :
        /\ req[p].pc = "awaitApi" /\ req[p].via = "cache"
        /\ req[p].token = ebayToken
        /\ tokenExpiryTime > now + BufferWindow

(* C3: P2 (forced refresh): with credentials configured, a getEbayToken call made
   with an empty cache or at t > t0 + L*1000 - bufferWindow issues exactly one
   identity call; when that call succeeds the caller gets the token just issued
   and the cache the expiry computed from it; no invocation issues more than one
   identity call. *)
C3_ForcedRefresh ==
    [][/\ \A p \in Procs :
            ( /\ CallsGetToken(p)
              /\ EBAY_CLIENT_ID # "" /\ EBAY_CLIENT_SECRET # ""
              /\ (CacheEmpty \/ (HoldsAcquired /\ now > WindowEnd)) )
                => /\ req'[p].pc = "awaitToken"
                   /\ req'[p].idCalls = 1
                   /\ \A q \in Procs \ {p} : req'[q] = req[q]
                   /\ CacheUnchanged
       /\ \A p \in Requests :
            (req[p].pc = "awaitToken" /\ ReturnsToken(p))
                => /\ acq'.set /\ acq'.now = req[p].now
                   /\ req'[p].token = acq'.token
                   /\ ebayToken' = acq'.token
                   /\ tokenExpiryTime' = IF acq'.expiresIn = NaN THEN NaN
                                         ELSE req[p].now + acq'.expiresIn * 1000
       /\ \A p \in Procs : req'[p].idCalls <= 1
       /\ sent'.idCalls <= 1]_vars

\* a call made after the window of the cached token has ended is waiting for its identity call
C3_Witness ==
    \E p \in Requests :
        /\ req[p].pc = "awaitToken" /\ req[p].idCalls = 1
        /\ HoldsAcquired /\ req[p].now > WindowEnd /\ req[p].now > acq.now

(* C4: P3 (failure clears cache) as stated: a failed acquisition leaves token
   null and expiry 0, and the next getEbayToken call attempts a new acquisition.
   Refuted when another acquisition, in flight at the failure, succeeds before
   that next call. *)
C4_NextCallAcquires ==
    [][/\ \A p \in Procs : AcquisitionFails(p) => ebayToken' = Null /\ tokenExpiryTime' = 0
       /\ \A p \in Procs : (CallsGetToken(p) /\ failed) => req'[p].pc = "awaitToken"]_vars

(* C4 amended: a failed acquisition leaves token null and expiry 0, and the next
   getEbayToken call, if it finds the cache as the failure left it, returns no
   cached token and attempts a new acquisition. *)
C4_NextCallOnClearedCacheAcquires ==
    [][/\ \A p \in Procs : AcquisitionFails(p) => ebayToken' = Null /\ tokenExpiryTime' = 0
       /\ \A p \in Procs :
            (CallsGetToken(p) /\ failed /\ CacheEmpty)
                => /\ req'[p].pc = "awaitToken"
                   /\ req'[p].idCalls = 1
                   /\ req'[p].token = Null]_vars

\* an acquisition has just failed for a request, the cache is cleared, a caller is still to come
C4_Witness ==
    /\ failed /\ CacheEmpty
    /\ sent.cause.origin = "identity"
    /\ \E p \in Requests : req[p].pc = "idle"

(* C5: cache atomicity: in every state the cache is fully set (a token present
   and expiry a positive timestamp) or fully cleared (token absent and expiry 0),
   whatever the identity response contained. *)
C5_CacheAtomic ==
    \/ /\ ebayToken \notin {Null, Undefined, ""}
       /\ tokenExpiryTime # NaN
       /\ tokenExpiryTime > 0
    \/ /\ ebayToken \in {Null, Undefined}
       /\ tokenExpiryTime = 0

(* C6: scenario C: when the identity endpoint rejects the grant with status S the
   handler answers with status S and {message, details}; 500 only when the
   failure carried no status. *)
C6_IdentityStatusMirrored ==
    sent.cause.origin = "identity"
        => /\ sent.res.shape = "message_details"
           /\ sent.res.status = IF sent.cause.error.hasResponse
                                THEN sent.cause.error.status ELSE 500

(* C7: no failure of getEbayToken or of a marketplace call, in a handler or in
   the token acquisition at startup, is left uncaught. *)
C7_NoUnhandledRejection == ~unhandled

(* C8: P4 (missing credentials): with the client id or the secret empty and no
   fresh token cached, getEbayToken fails at once: no identity call, the cache
   untouched, and the handler answers 500 with the diagnostic message. *)
C8_MissingCredentials ==
    [][\A p \in Procs :
          ( /\ CallsGetToken(p)
            /\ (EBAY_CLIENT_ID = "" \/ EBAY_CLIENT_SECRET = "")
            /\ ~(ebayToken \notin {Null, Undefined, ""} /\ tokenExpiryTime # NaN
                 /\ tokenExpiryTime > now + BufferWindow) )
              => /\ NoIdentityCall
                 /\ CacheUnchanged
                 /\ req'[p].pc = "done"
                 /\ p \in Requests =>
                      /\ sent'.res.status = 500
                      /\ sent'.res.shape = "message_details"
                      /\ sent'.res.body = ConfigError.message
                      /\ sent'.idCalls = 0 /\ sent'.mpCalls = 0]_vars

\* a request has just been answered 500 for want of credentials, one of the two being set
C8_Witness ==
    /\ sent.via = "nocreds" /\ sent.res.status = 500 /\ sent.idCalls = 0
    /\ EBAY_CLIENT_ID # EBAY_CLIENT_SECRET
    /\ CacheEmpty

(* C9: P5 (item id validation): the item handler called with an empty itemId
   answers 400 {error} at once: getEbayToken is not called, no identity or
   marketplace call is issued and the cache is untouched. *)
C9_MissingItemId ==
    [][/\ (sent = Nothing /\ sent'.kind = "item" /\ sent'.itemId = "")
            => /\ sent'.res.status = 400 /\ sent'.res.shape = "error"
               /\ sent'.via = "none" /\ sent'.idCalls = 0 /\ sent'.mpCalls = 0
               /\ \E p \in Requests : req[p].pc = "idle" /\ req'[p].pc = "done"
               /\ NoIdentityCall
               /\ CacheUnchanged
       /\ \A p \in Requests :
            req'[p].pc \in {"awaitToken", "awaitApi"} => req'[p].itemId # ""]_vars

\* a request for an item with no id has just been answered 400 while a token is cached
C9_Witness ==
    /\ sent.kind = "item" /\ sent.itemId = "" /\ sent.res.status = 400
    /\ HoldsAcquired

(* C10: upstream error mapping: when the marketplace call of a search or item
   request fails, the status is the upstream's if the failure carried one and
   500 otherwise, and the body is {message, details} with details the upstream
   payload if there is one and the error's message otherwise. *)
C10_UpstreamErrorMapping ==
    sent.cause.origin = "api"
        => /\ sent.kind \in {"search", "item"}
           /\ sent.mpCalls = 1
           /\ sent.res.shape = "message_details"
           /\ sent.res.status = IF sent.cause.error.hasResponse
                                THEN sent.cause.error.status ELSE 500
           /\ sent.res.body = IF sent.cause.error.hasResponse /\ sent.cause.error.data # ""
                              THEN sent.cause.error.data ELSE sent.cause.error.message

\* an item request has just been answered with the upstream's 404, which had no payload
C10_Witness ==
    /\ sent.cause.origin = "api" /\ sent.kind = "item"
    /\ sent.res.status = 404
    /\ sent.res.body = "Request failed with status code 404"

----------------------------------------------------------------------------
\* text is pad1 spaces, then core, then pad2 spaces
Spaces(n) == [i \in 1..n |-> " "]
IsPaddingOf(text, core) ==
    \E i \in 0..Len(text), j \in 0..Len(text) : text = Spaces(i) \o core \o Spaces(j)

\* the caller's query has a character that is not a space
HasNonSpace(q) == q.q.given /\ \E i \in 1..Len(q.q.text) : q.q.text[i] # " "

(* C11: search parameter construction: the outbound parameters always contain
   category_ids (the caller's category, or CLOTHING_CATEGORY_ID when none is
   given), limit and offset (20 and 0 when not given), and contain q exactly
   when the caller's query is non-empty after trimming, q then being the query
   without its leading and trailing spaces. *)
C11_SearchParams ==
    searchParams # NoParams
        => /\ {"category_ids", "limit", "offset"} \subseteq DOMAIN searchParams
           /\ DOMAIN searchParams \subseteq {"category_ids", "limit", "offset", "q"}
           /\ searchParams.category_ids =
                  IF query.category.given THEN query.category.text
                  ELSE <<"1", "1", "4", "5", "0">>
           /\ ~query.limit.given => searchParams.limit = 20
           /\ ~query.offset.given => searchParams.offset = 0
           /\ "q" \in DOMAIN searchParams <=> HasNonSpace(query)
           /\ "q" \in DOMAIN searchParams
                 => /\ searchParams.q # <<>>
                    /\ Head(searchParams.q) # " "
                    /\ searchParams.q[Len(searchParams.q)] # " "
                    /\ IsPaddingOf(query.q.text, searchParams.q)

\* a padded query was trimmed, the category defaulted, limit parsed from its text
C11_Witness ==
    /\ searchParams # NoParams
    /\ query.q = Given(<<" ", "j", " ", "k", " ">>)
    /\ searchParams.q = <<"j", " ", "k">>
    /\ ~query.category.given
    /\ query.limit = Given(<<" ", "1", "2", "x">>) /\ searchParams.limit = 12

----------------------------------------------------------------------------
\* the response in `sent` answers a request whose token acquisition and
\* marketplace call both succeeded
BothSucceeded ==
    /\ sent.cause.origin = "none"
    /\ sent.cause.error.hasResponse
    /\ sent.via \in {"cache", "identity"}

(* C12: verbatim relay: for search and for item, when the token acquisition and
   the marketplace call both succeed, the response is 200 and its body is the
   upstream body, unchanged. *)
C12_VerbatimRelay ==
    BothSucceeded
        => /\ sent.kind \in {"search", "item"}
           /\ sent.mpCalls = 1
           /\ sent.res.status = 200
           /\ sent.res.shape = "json"
           /\ sent.res.body = sent.cause.error.data

\* an item request, its token acquired from the identity endpoint, relays the body
C12_Witness ==
    /\ BothSucceeded
    /\ sent.kind = "item" /\ sent.via = "identity"
    /\ sent.res.body = "upstreamJson"

\* a search request served from the cache relays the other body
C12_WitnessSearch ==
    /\ BothSucceeded
    /\ sent.kind = "search" /\ sent.via = "cache"
    /\ sent.res.body = "{}"

----------------------------------------------------------------------------
\* the invocations of getEbayToken awaiting the identity endpoint
InFlight == {p \in Procs : req[p].pc = "awaitToken"}

\* the cache is empty, or holds an acquired token that is out of its window
CacheStale == CacheEmpty \/ (HoldsAcquired /\ now >= WindowEnd)

(* C13: no de-duplication: every getEbayToken invocation that reads the cache
   while it is empty or stale issues an identity call of its own, however many
   other invocations are already awaiting theirs: k such invocations in flight
   are k identity calls, one each; the completion of one leaves the others
   waiting for their own. *)
C13_NoDeduplication ==
    [][/\ \A p \in Procs :
            ( /\ CallsGetToken(p)
              /\ EBAY_CLIENT_ID # "" /\ EBAY_CLIENT_SECRET # ""
              /\ CacheStale )
                => /\ InFlight' = InFlight \cup {p}
                   /\ req'[p].idCalls = 1
                   /\ \A o \in InFlight : req'[o] = req[o]
       /\ \A o \in InFlight' : req'[o].idCalls = 1 /\ req'[o].via = "identity"
       /\ \A p \in InFlight, o \in InFlight :
            (o # p /\ p \notin InFlight') => req'[o] = req[o]]_vars

\* startup and both requests read the empty cache before any identity call has
\* completed: three identity calls are in flight
C13_Witness ==
    /\ Cardinality(InFlight) = 3
    /\ CacheEmpty /\ ~acq.set
    /\ \A p \in InFlight : req[p].idCalls = 1

----------------------------------------------------------------------------
\* in this step, the identity call of caller p returns a token
AcquisitionSucceeds(p) ==
    /\ req[p].pc = "awaitToken"
    /\ req'[p].pc # "awaitToken"
    /\ acq'.set

(* C14: a successful acquisition stores and replaces: when the identity call of
   an invocation returns token T with lifetime L, the cache afterwards holds T
   with expiry t0 + L*1000, t0 being the clock read when the invocation started
   (before the network call), whatever the cache held before, and T is what the
   caller gets. *)
C14_StoresAndReplaces ==
    [][\A p \in Procs :
          /\ (CallsGetToken(p) /\ p \in InFlight') => req'[p].now = now
          /\ (p \in InFlight /\ p \in InFlight') => req'[p].now = req[p].now
          /\ AcquisitionSucceeds(p)
                => /\ ebayToken' = acq'.token
                   /\ acq'.expiresIn # NaN
                         => tokenExpiryTime' = req[p].now + acq'.expiresIn * 1000
                   /\ p \in Requests => req'[p].token = acq'.token]_vars

\* tokB, acquired by an invocation that started before the clock advanced, has
\* replaced in the cache the tokA another request acquired; its expiry counts
\* from the start of the invocation
C14_Witness ==
    \E p \in Requests, o \in Requests :
        /\ req[p].pc = "awaitApi" /\ req[p].via = "identity"
        /\ HoldsAcquired /\ req[p].token = ebayToken
        /\ ebayToken = "tokB"
        /\ req[o].pc = "awaitApi" /\ req[o].via = "identity" /\ req[o].token = "tokA"
        /\ acq.now < now
        /\ tokenExpiryTime = acq.now + acq.expiresIn * 1000

----------------------------------------------------------------------------
\* in this step, the marketplace call of request p completes and p is answered
MarketplaceCompletes(p) == req[p].pc = "awaitApi" /\ req'[p].pc = "done"

(* C15: sole writer: the cache changes only in a step in which an identity call
   completes inside getEbayToken; the completion of a marketplace call, success
   or failure with any status (401 included), and a call answered from the
   cache leave token and expiry as they were. *)
C15_SoleWriter ==
    [][/\ ~CacheUnchanged => \E p \in InFlight : p \notin InFlight'
       /\ \A p \in Requests : MarketplaceCompletes(p) => CacheUnchanged
       /\ \A p \in Procs :
            (CallsGetToken(p) /\ p \notin InFlight') => CacheUnchanged]_vars

\* a request has just been answered with the marketplace's 401: the cache still
\* holds the acquired token and its expiry
C15_Witness ==
    /\ sent.cause.origin = "api"
    /\ sent.cause.error.status = 401
    /\ HoldsAcquired
    /\ tokenExpiryTime = acq.now + acq.expiresIn * 1000

----------------------------------------------------------------------------
\* the marketplace calls request p has issued so far
MarketplaceCalls(p) == req[p].mpCalls

(* C16: token before call: a request issues its marketplace call only in the
   step in which its getEbayToken returns a token, and the call carries that
   token: the cached one on a hit, the one the identity endpoint just returned
   otherwise; the token stays the request's own while the cache is replaced or
   cleared; a request whose getEbayToken fails is answered without any
   marketplace call. *)
C16_TokenBeforeCall ==
    [][\A p \in Requests :
          /\ (req'[p].pc # "done" /\ req'[p].mpCalls # MarketplaceCalls(p))
                => /\ ReturnsToken(p)
                   /\ req'[p].mpCalls = 1
                   /\ req'[p].token =
                         IF req[p].pc = "idle" THEN ebayToken ELSE acq'.token
          /\ (req[p].pc = "awaitApi" /\ req'[p].pc = "awaitApi")
                => req'[p].token = req[p].token /\ req'[p].mpCalls = 1
          /\ (req[p].pc \in {"idle", "awaitToken"} /\ req'[p].pc = "done")
                => sent'.mpCalls = 0
          /\ MarketplaceCompletes(p) => sent'.mpCalls = 1]_vars

\* a request awaits the marketplace with the token it acquired while the cache,
\* cleared by a later failure, is empty
C16_Witness ==
    \E p \in Requests :
        /\ req[p].pc = "awaitApi" /\ req[p].via = "identity"
        /\ req[p].token = "tokA" /\ req[p].mpCalls = 1
        /\ CacheEmpty /\ failed

----------------------------------------------------------------------------
(* C17: last completion wins: the cache is what the identity call that completed
   last made it (acq records that call: its token, the start time of its
   invocation and its lifetime, or nothing if it failed): that token with expiry
   start + lifetime*1000 if it succeeded, null and 0 if it failed, whatever the
   calls that completed before it stored. *)
C17_LastCompletionWins ==
    IF acq.set
    THEN /\ ebayToken = acq.token
         /\ tokenExpiryTime =
                IF acq.expiresIn = NaN THEN NaN ELSE acq.now + acq.expiresIn * 1000
    ELSE ebayToken = Null /\ tokenExpiryTime = 0

\* all identity calls have completed, two of them with different tokens: the
\* cache holds tokB, which the later completion stored over tokA
C17_Witness ==
    /\ InFlight = {}
    /\ \E p \in Requests, o \in Requests :
          /\ req[p].pc = "awaitApi" /\ req[p].via = "identity" /\ req[p].token = "tokA"
          /\ req[o].pc = "awaitApi" /\ req[o].via = "identity" /\ req[o].token = "tokB"
    /\ acq.set /\ ebayToken = "tokB"
    /\ req[Startup].pc = "done"

\* all identity calls have completed, the last one failed: the cache is empty
\* though an earlier one had stored tokA
C17_WitnessFailedLast ==
    /\ InFlight = {}
    /\ \E p \in Requests :
          req[p].pc = "awaitApi" /\ req[p].via = "identity" /\ req[p].token = "tokA"
    /\ ~acq.set /\ CacheEmpty /\ failed

----------------------------------------------------------------------------
\* request p is being handled: it awaits an outbound call
Pending(p) == req[p].pc \in {"awaitToken", "awaitApi"}

\* in this step, a response is handed to Express
Responds == sent = Nothing /\ sent' # Nothing

\* in this step, request p is answered
Answered(p) == req[p].pc # "done" /\ req'[p].pc = "done"

(* C18: one response, no retry: provided every outbound call eventually returns
   or fails, every search or item request is eventually answered; it is answered
   exactly once, after at most one identity call and at most one marketplace
   call; the failure of either call answers the request in the same step, with
   no second call. *)
C18_OneResponseNoRetry ==
    /\ [][\A p \in Requests :
             /\ req'[p].idCalls <= 1 /\ req'[p].mpCalls <= 1
             /\ sent'.idCalls <= 1 /\ sent'.mpCalls <= 1
             /\ Answered(p) => Responds /\ sent'.res.status # 0
             /\ Responds => \E o \in Requests :
                                Answered(o) /\ \A n \in Requests \ {o} : ~Answered(n)
             /\ req[p].pc = "done" => req'[p].pc = "done"
             /\ (p \in InFlight /\ p \notin InFlight' /\ ~acq'.set) => Answered(p)
             /\ (req[p].pc = "awaitApi" /\ req'[p].pc # "awaitApi") => Answered(p)]_vars
    /\ \A p \in Requests : Pending(p) ~> (req[p].pc = "done")

\* a request has just been answered with the marketplace's 401 after one identity
\* call and one marketplace call
C18_Witness ==
    /\ sent.cause.origin = "api" /\ sent.cause.error.status = 401
    /\ sent.res.status = 401
    /\ sent.via = "identity"
    /\ sent.idCalls = 1 /\ sent.mpCalls = 1
====
